---- MODULE Spec2Model ----
(***************************************************************************)
(* Hill climbing with random restarts for Wi-Fi modem placement            *)
(* (src/Hill_Climbing.py, class HillClimbingWiFiOptimizer).                *)
(*                                                                         *)
(* A position is a pair <<x, y>>, a placement a sequence of positions.     *)
(* Python's None is the empty option <<>>, a present value v is <<v>>.     *)
(***************************************************************************)
EXTENDS Integers, Sequences, FiniteSets, TLC

\* ---- bounds of the model ----------------------------------------------
MaxGrid == 2
MaxComputers == 1
MaxWifi == 2
MaxIterations == 2
MaxRestarts == 2
\* the single runs of one modem on a wider grid
MaxWideGrid == 3
MaxWideComputers == 2

\* float('-inf') of line 74: below every score a bounded instance can have
NegInf == -1000000

\* max_iterations: int = 500, the default the callers of the restart search
\* in the program leave in place (lines 197, 215, 223)
DefaultMaxIterations == 500

None == <<>>
Some(v) == <<v>>

VARIABLES
    pc,               \* where the program is: "new", "init_raise", "idle",
                      \* "hc_loop", "hc_return", "hc_raise",
                      \* "rr_loop", "rr_return", "rr_raise"
    exception,        \* the exception that ended the program, "" if none
    grid_size,        \* self.grid_size
    num_computers,    \* self.num_computers
    num_wifi,         \* self.num_wifi
    computers,        \* self.computers, as the set of its elements: the
                      \* list has no duplicates and its order is only seen
                      \* by the plot's labels
    initial_wifi,     \* hill_climbing's argument / the restart loop's local
    max_iterations,   \* argument of hill_climbing and of the restart search
    current_wifi,     \* locals of hill_climbing
    current_score,
    iterations,
    improvements,
    neighbors,
    best_neighbor,
    hc_best_score,    \* hill_climbing's local best_score
    result,           \* the dictionary hill_climbing returned (option)
    num_restarts,     \* argument and locals of the restart search
    restart,
    best_solution,
    best_score,
    best_restart_num,
    all_results,
    total_improvements,
    results           \* the dictionary the restart search returned (option)

self == <<grid_size, num_computers, num_wifi, computers>>
hc_frame == <<initial_wifi, max_iterations, current_wifi, current_score,
              iterations, improvements, neighbors, best_neighbor,
              hc_best_score, result>>
rr_frame == <<num_restarts, restart, best_solution, best_score,
              best_restart_num, all_results, total_improvements, results>>
vars == <<pc, exception, self, hc_frame, rr_frame>>

\* ---- helpers ------------------------------------------------------------
abs(n) == IF n < 0 THEN -n ELSE n

\* len(set(xs)) == len(xs)
AllDistinct(xs) == Cardinality({xs[i] : i \in DOMAIN xs}) = Len(xs)

\* random.randint(0, g - 1) raises ValueError on an empty range
RandintRaises(g) == g - 1 < 0

\* the cells random.randint(0, g - 1) can draw for x and for y
Cells(g) == (0..(g - 1)) \X (0..(g - 1))

\* {(randint(0, g-1), randint(0, g-1)) for _ in range(n)}: n draws, the set
\* removes the repeated ones.  No draw is made when n <= 0.
RandomPositionSets(g, n) ==
    IF n <= 0 THEN {{}}
    ELSE {S \in SUBSET Cells(g) : 1 <= Cardinality(S) /\ Cardinality(S) <= n}

\* list({...}): the same draws, listed in the set's (hash) order
RandomPositionLists(g, n) ==
    IF n <= 0 THEN {<<>>}
    ELSE {s \in UNION {[1..k -> Cells(g)] : k \in 1..n} : AllDistinct(s)}

\* the draws of lines 16-18 and 21-23 raise when there is a draw to make and
\* the range is empty
DrawRaises(g, n) == n >= 1 /\ RandintRaises(g)

\* the lists generate_random_wifi can return
generate_random_wifi == RandomPositionLists(grid_size, num_wifi)

\* the distance of a king's move: the greater of the two differences
chessboard_distance(pos1, pos2) ==
    IF abs(pos1[1] - pos2[1]) > abs(pos1[2] - pos2[2])
    THEN abs(pos1[1] - pos2[1])
    ELSE abs(pos1[2] - pos2[2])

manhattan_distance(pos1, pos2) ==
    abs(pos1[1] - pos2[1]) + abs(pos1[2] - pos2[2])

\* min(manhattan_distance(computer, wifi) for wifi in wifi_positions), for a
\* placement that is not empty
MinDistance(computer, wifi_positions) ==
    CHOOSE m \in {manhattan_distance(computer, wifi_positions[k]) :
                    k \in DOMAIN wifi_positions} :
        \A k \in DOMAIN wifi_positions :
            m <= manhattan_distance(computer, wifi_positions[k])

\* the sum over the computers cs of the distance to the nearest modem
TotalDistance(cs, wifi_positions) ==
    LET sum[S \in SUBSET cs] ==
            IF S = {} THEN 0
            ELSE LET computer == CHOOSE c \in S : TRUE
                 IN  MinDistance(computer, wifi_positions)
                     + sum[S \ {computer}]
    IN  sum[cs]

\* min() of an empty generator raises ValueError: it is evaluated once per
\* computer, so only when there is a computer and no modem
ObjectiveRaises(cs, wifi_positions) ==
    cs # {} /\ Len(wifi_positions) = 0

calculate_objective(wifi_positions) ==
    -TotalDistance(computers, wifi_positions)

\* ---- get_neighbors --------------------------------------------------------
\* the four directions with a diagonal in place of the last
DirectionsWithDiagonal == <<<<-1, 0>>, <<1, 0>>, <<0, -1>>, <<1, 1>>>>

Directions == <<<<-1, 0>>, <<1, 0>>, <<0, -1>>, <<0, 1>>>>

\* the bounds test with <= in place of <
InGridInclusive(new_x, new_y) ==
    0 <= new_x /\ new_x <= grid_size /\ 0 <= new_y /\ new_y <= grid_size

\* 0 <= new_x < self.grid_size and 0 <= new_y < self.grid_size
InGrid(new_x, new_y) ==
    0 <= new_x /\ new_x < grid_size /\ 0 <= new_y /\ new_y < grid_size

\* new_wifi_positions = wifi_positions.copy(); new_wifi_positions[i] = new_pos
MovedPlacement(wifi_positions, i, d) ==
    [wifi_positions EXCEPT ![i] = <<wifi_positions[i][1] + Directions[d][1],
                                    wifi_positions[i][2] + Directions[d][2]>>]

\* the filter of line 39 alone
KeepsNeighborInGridOnly(wifi_positions, i, d) ==
    LET new == MovedPlacement(wifi_positions, i, d)
    IN  InGrid(new[i][1], new[i][2])

\* the two filters of lines 39 and 43
KeepsNeighbor(wifi_positions, i, d) ==
    LET new == MovedPlacement(wifi_positions, i, d)
    IN  InGrid(new[i][1], new[i][2]) /\ AllDistinct(new)

\* the pairs <<i, d>> of the nested loops of lines 36-37, in the order the
\* loops visit them: modem by modem, and for each modem direction by direction
Moves(wifi_positions) ==
    [k \in 1..(4 * Len(wifi_positions)) |->
        <<((k - 1) \div 4) + 1, ((k - 1) % 4) + 1>>]

\* the moved placements that pass the filters, in the order of the loops
get_neighbors(wifi_positions) ==
    LET kept == SelectSeq(Moves(wifi_positions),
                          LAMBDA m : KeepsNeighbor(wifi_positions, m[1], m[2]))
    IN  [k \in 1..Len(kept) |->
            MovedPlacement(wifi_positions, kept[k][1], kept[k][2])]

\* the list passed to get_neighbors had line 42 written into it and not into
\* a copy: each modem ends on the last of its moves that stays in the grid
wifi_positions_written(wifi_positions) ==
    [i \in 1..Len(wifi_positions) |->
        LET ds == {d \in 1..4 :
                     InGrid(MovedPlacement(wifi_positions, i, d)[i][1],
                            MovedPlacement(wifi_positions, i, d)[i][2])}
        IN  IF ds = {} THEN wifi_positions[i]
            ELSE MovedPlacement(wifi_positions, i,
                                CHOOSE d \in ds : \A e \in ds : e <= d)[i]]

\* the list passed to get_neighbors, after the call: line 42 writes into the
\* copy of line 41, so the list is as it was
wifi_positions_after(wifi_positions) == wifi_positions

\* ---- hill_climbing --------------------------------------------------------
\* max(iterable, key=score): the first element of the greatest key wins,
\* a later one replaces the incumbent only when its key is greater
ReplacesNever(candidate_score, incumbent_score) == FALSE

ReplacesOnTie(candidate_score, incumbent_score) ==
    candidate_score >= incumbent_score

Replaces(candidate_score, incumbent_score) == candidate_score > incumbent_score

\* one step of max that takes the better score but keeps the neighbor it had
GreaterScoreOnly(incumbent, candidate) ==
    CHOOSE r \in {IF Replaces(c[2], b[2]) THEN <<b[1], c[2]>> ELSE b :
                    b \in {incumbent}, c \in {candidate}} : TRUE

\* one step of max: the incumbent or the candidate, each a pair of a neighbor
\* and its score (the operands are bound once, then compared)
Greater(incumbent, candidate) ==
    CHOOSE r \in {IF Replaces(c[2], b[2]) THEN c ELSE b :
                    b \in {incumbent}, c \in {candidate}} : TRUE

RECURSIVE MaxFrom(_, _, _)
MaxFrom(ns, k, best) ==
    IF k > Len(ns) THEN best
    ELSE MaxFrom(ns, k + 1,
                 Greater(best, <<Some(ns[k]), calculate_objective(ns[k])>>))

\* max(((n, objective(n)) for n in neighbors), key=..., default=(None, score))
BestOf(ns, score) ==
    IF Len(ns) = 0 THEN <<None, score>>
    ELSE MaxFrom(ns, 2, <<Some(ns[1]), calculate_objective(ns[1])>>)

LoopContinuesInclusive(its, max_its) == its <= max_its

\* while iterations < max_iterations
LoopContinues(its, max_its) == its < max_its

BreaksOnEqualOnly(best, current) == best = current

\* break only on a worse best neighbor, or when there is no neighbor at all
BreaksOnWorseOnly(best, current) ==
    best < current \/ Len(get_neighbors(current_wifi)) = 0

\* if best_score <= current_score: break
Breaks(best, current) == best <= current

\* the returned dictionary, with the evaluation that ended the run counted as
\* an iteration
RunResultCountingExit(wifi, score, its, imps) ==
    [wifi_positions |-> wifi, score |-> score,
     iterations |-> its + 1, improvements |-> imps]

\* the returned dictionary
RunResult(wifi, score, its, imps) ==
    [wifi_positions |-> wifi, score |-> score,
     iterations |-> its, improvements |-> imps]

\* the whole loop of hill_climbing, as the restart search runs it
RECURSIVE Climb(_, _, _, _, _)
Climb(wifi, score, its, imps, max_its) ==
    IF ~LoopContinues(its, max_its) THEN RunResult(wifi, score, its, imps)
    ELSE LET b == BestOf(get_neighbors(wifi), score)
         IN  IF Breaks(b[2], score)
             THEN RunResult(wifi_positions_after(wifi), score, its, imps)
             ELSE Climb(b[1][1], b[2], its + 1, imps + 1, max_its)

hill_climbing(wifi, max_its) ==
    Climb(wifi, calculate_objective(wifi), 0, 0, max_its)

\* ---- the state machine ----------------------------------------------------
NoHcFrame ==
    /\ initial_wifi = <<>> /\ max_iterations = 0
    /\ current_wifi = <<>> /\ current_score = 0
    /\ iterations = 0 /\ improvements = 0
    /\ neighbors = <<>> /\ best_neighbor = None /\ hc_best_score = 0
    /\ result = None

NoRrFrame ==
    /\ num_restarts = 0 /\ restart = 0
    /\ best_solution = None /\ best_score = 0 /\ best_restart_num = 0
    /\ all_results = <<>> /\ total_improvements = 0
    /\ results = None

Init ==
    /\ pc = "new"
    /\ grid_size = 0 /\ num_computers = 0 /\ num_wifi = 0
    /\ computers = {}
    /\ exception = ""
    /\ NoHcFrame
    /\ NoRrFrame

\* __init__ (lines 8-13) with generate_random_computers (lines 15-18)
Construct(g, nc, nw) ==
    /\ pc = "new"
    /\ grid_size' = g
    /\ num_computers' = nc
    /\ num_wifi' = nw
    /\ IF DrawRaises(g, nc)
       THEN /\ computers' = {}
            /\ pc' = "init_raise"
            /\ exception' = "ValueError"
       ELSE /\ computers' \in RandomPositionSets(g, nc)
            /\ pc' = "idle"
            /\ UNCHANGED exception
    /\ UNCHANGED <<hc_frame, rr_frame>>

\* hill_climbing, lines 48-51: the call and the initialisation of the locals.
\* The start placement comes from generate_random_wifi, as at lines 193-194.
HillClimbingCall(wifi, max_its) ==
    /\ pc = "idle"
    /\ initial_wifi' = wifi
    /\ max_iterations' = max_its
    /\ IF ObjectiveRaises(computers, wifi)
       THEN /\ pc' = "hc_raise"
            /\ exception' = "ValueError"
            /\ current_wifi' = wifi
            /\ UNCHANGED current_score
       ELSE /\ pc' = "hc_loop"
            /\ UNCHANGED exception
            /\ current_wifi' = wifi
            /\ current_score' = calculate_objective(wifi)
    /\ iterations' = 0
    /\ improvements' = 0
    /\ UNCHANGED <<neighbors, best_neighbor, hc_best_score, result>>
    /\ UNCHANGED <<self, rr_frame>>

\* one evaluation of the loop condition and, if it holds, of the loop body
\* (lines 52-64); the return of lines 65-70 when the loop ends
HillClimbingStep ==
    /\ pc = "hc_loop"
    /\ IF ~LoopContinues(iterations, max_iterations)
       THEN /\ pc' = "hc_return"
            /\ result' = Some(RunResult(current_wifi, current_score,
                                        iterations, improvements))
            /\ UNCHANGED <<current_wifi, current_score, iterations,
                           improvements, neighbors, best_neighbor,
                           hc_best_score>>
       ELSE \E ns \in {get_neighbors(current_wifi)} :
            \E b \in {BestOf(ns, current_score)} :
                /\ neighbors' = ns
                /\ best_neighbor' = b[1]
                /\ hc_best_score' = b[2]
                /\ IF Breaks(b[2], current_score)
                   THEN /\ pc' = "hc_return"
                        /\ current_wifi' = wifi_positions_after(current_wifi)
                        /\ result' = Some(RunResult(current_wifi', current_score,
                                                    iterations, improvements))
                        /\ UNCHANGED <<current_score, iterations, improvements>>
                   ELSE /\ pc' = "hc_loop"
                        /\ current_wifi' = b[1][1]
                        /\ current_score' = b[2]
                        /\ improvements' = improvements + 1
                        /\ iterations' = iterations + 1
                        /\ UNCHANGED result
    /\ UNCHANGED <<initial_wifi, max_iterations>>
    /\ UNCHANGED <<exception, self, rr_frame>>

\* the caller takes the returned dictionary; the frame is gone
Return ==
    /\ pc \in {"hc_return", "rr_return"}
    /\ pc' = "idle"
    /\ initial_wifi' = <<>> /\ max_iterations' = 0
    /\ current_wifi' = <<>> /\ current_score' = 0
    /\ iterations' = 0 /\ improvements' = 0
    /\ neighbors' = <<>> /\ best_neighbor' = None /\ hc_best_score' = 0
    /\ result' = None
    /\ num_restarts' = 0 /\ restart' = 0
    /\ best_solution' = None /\ best_score' = 0 /\ best_restart_num' = 0
    /\ all_results' = <<>> /\ total_improvements' = 0
    /\ results' = None
    /\ UNCHANGED <<exception, self>>

\* min(scores), len(set(scores)), and the sums np.mean and np.std are made of
RECURSIVE MinFrom(_, _)
MinFrom(scores, k) ==
    IF k = Len(scores) THEN scores[k]
    ELSE LET r == MinFrom(scores, k + 1)
         IN  IF r < scores[k] THEN r ELSE scores[k]

RECURSIVE SumFrom(_, _)
SumFrom(scores, k) ==
    IF k > Len(scores) THEN 0 ELSE scores[k] + SumFrom(scores, k + 1)

RECURSIVE SumSquaresFrom(_, _)
SumSquaresFrom(scores, k) ==
    IF k > Len(scores) THEN 0
    ELSE scores[k] * scores[k] + SumSquaresFrom(scores, k + 1)

\* lines 107-115.  A float quotient a / b is the pair <<a, b>>, so that 0 / 0
\* (numpy's nan) is <<0, 0>>; std_score is given by its square.
Statistics(scores, best, total, nr) ==
    LET n == Len(scores)
        sum == SumFrom(scores, 1)
    IN  [best_score |-> best,
         worst_score |-> MinFrom(scores, 1),
         average_score |-> <<sum, n>>,
         std_score |-> <<n * SumSquaresFrom(scores, 1) - sum * sum, n * n>>,
         unique_solutions |-> Cardinality({scores[i] : i \in DOMAIN scores}),
         total_improvements |-> total,
         improvement_rate |-> <<total, nr>>]

RunsRestartAtLeastOnce(done, nr) == done < nr \/ done = 0

\* for restart in range(num_restarts): is there another restart to run,
\* after `done` of them
RunsRestart(done, nr) == done < nr

ImprovesWhenLower(score, best) == score < best \/ best = NegInf

ImprovesOnTie(score, best) == score >= best

\* if result['score'] > best_score
Improves(score, best) == score > best

\* hill_climbing_with_random_restart, lines 73-78
RestartCall(nr, max_its) ==
    /\ pc = "idle"
    /\ pc' = "rr_loop"
    /\ num_restarts' = nr
    /\ max_iterations' = max_its
    /\ best_solution' = None
    /\ best_score' = NegInf
    /\ best_restart_num' = 0
    /\ all_results' = <<>>
    /\ total_improvements' = 0
    /\ restart' = 0
    /\ UNCHANGED <<initial_wifi, current_wifi, current_score, iterations,
                   improvements, neighbors, best_neighbor, hc_best_score,
                   result, results>>
    /\ UNCHANGED <<exception, self>>

\* one pass of the loop of lines 83-91.  `restart` counts the passes made,
\* which is the loop variable of the pass to come.
RestartIteration ==
    /\ pc = "rr_loop"
    /\ RunsRestart(restart, num_restarts)
    /\ IF DrawRaises(grid_size, num_wifi)
       THEN /\ pc' = "rr_raise"
            /\ exception' = "ValueError"
            /\ UNCHANGED <<initial_wifi, restart, best_solution, best_score,
                           best_restart_num, all_results, total_improvements>>
       ELSE \E wifi \in generate_random_wifi :
            /\ initial_wifi' = wifi
            /\ IF ObjectiveRaises(computers, wifi)
               THEN /\ pc' = "rr_raise"
                    /\ exception' = "ValueError"
                    /\ UNCHANGED <<restart, best_solution, best_score,
                                   best_restart_num, all_results,
                                   total_improvements>>
               ELSE LET r == hill_climbing(wifi, max_iterations)
                    IN  /\ pc' = "rr_loop"
                        /\ UNCHANGED exception
                        /\ all_results' = Append(all_results, r)
                        /\ total_improvements' =
                               total_improvements + r.improvements
                        /\ IF Improves(r.score, best_score)
                           THEN /\ best_score' = r.score
                                /\ best_solution' = Some(r.wifi_positions)
                                /\ best_restart_num' = restart + 1
                           ELSE UNCHANGED <<best_score, best_solution,
                                            best_restart_num>>
                        /\ restart' = restart + 1
    /\ UNCHANGED <<num_restarts, max_iterations, results>>
    /\ UNCHANGED <<current_wifi, current_score, iterations, improvements,
                   neighbors, best_neighbor, hc_best_score, result>>
    /\ UNCHANGED self

\* lines 99-119, after the loop: min(scores) raises ValueError on an empty
\* list, the division of line 114 raises ZeroDivisionError on zero
RestartFinish ==
    /\ pc = "rr_loop"
    /\ ~RunsRestart(restart, num_restarts)
    /\ LET scores == [i \in DOMAIN all_results |-> all_results[i].score]
       IN  IF Len(scores) = 0
           THEN /\ pc' = "rr_raise"
                /\ exception' = "ValueError"
                /\ UNCHANGED results
           ELSE IF num_restarts = 0
           THEN /\ pc' = "rr_raise"
                /\ exception' = "ZeroDivisionError"
                /\ UNCHANGED results
           ELSE /\ pc' = "rr_return"
                /\ UNCHANGED exception
                /\ results' = Some(
                      [best_wifi_positions |-> best_solution,
                       best_score |-> best_score,
                       best_restart_num |-> best_restart_num,
                       total_restarts |-> num_restarts,
                       all_results |-> all_results,
                       statistics |-> Statistics(scores, best_score,
                                                 total_improvements,
                                                 num_restarts)])
    /\ UNCHANGED <<num_restarts, restart, best_solution, best_score,
                   best_restart_num, all_results, total_improvements>>
    /\ UNCHANGED <<hc_frame, self>>

\* the calls the program makes: a HillClimbingWiFiOptimizer(...) as in main
\* (lines 213, 221, 229), then on it single runs (lines 193-194) and restart
\* searches (lines 197, 215, 223)
NewOptimizer ==
    /\ pc = "new"
    /\ \E g \in -1..MaxGrid, nc \in -1..MaxComputers, nw \in -1..MaxWifi :
          Construct(g, nc, nw)

SingleRun ==
    /\ pc = "idle"
    /\ ~DrawRaises(grid_size, num_wifi)
    /\ \E wifi \in generate_random_wifi, max_its \in 0..MaxIterations :
          HillClimbingCall(wifi, max_its)

RestartSearch ==
    /\ pc = "idle"
    /\ \E nr \in -1..MaxRestarts,
          max_its \in (0..MaxIterations) \cup {DefaultMaxIterations} :
          RestartCall(nr, max_its)

Next ==
    \/ NewOptimizer
    \/ SingleRun
    \/ HillClimbingStep
    \/ RestartSearch
    \/ RestartIteration
    \/ RestartFinish
    \/ Return

Spec == Init /\ [][Next]_vars

\* single runs only, as `hill_climbing(self.generate_random_wifi())`
NextClimb ==
    \/ NewOptimizer
    \/ SingleRun
    \/ HillClimbingStep
    \/ Return

SpecClimb == Init /\ [][NextClimb]_vars

\* the interpreter runs a loop it has entered: a step that can be taken is taken
FairClimb == SpecClimb /\ WF_vars(HillClimbingStep)

\* an optimizer of one modem on a grid of up to MaxWideGrid cells a side, and
\* on it single runs with the cap given or left at its default (line 194)
NewWideOptimizer ==
    /\ pc = "new"
    /\ \E g \in 1..MaxWideGrid, nc \in 0..MaxWideComputers :
          Construct(g, nc, 1)

SingleRunOrDefault ==
    /\ pc = "idle"
    /\ ~DrawRaises(grid_size, num_wifi)
    /\ \E wifi \in generate_random_wifi,
          max_its \in (0..MaxIterations) \cup {DefaultMaxIterations} :
          HillClimbingCall(wifi, max_its)

NextWide ==
    \/ NewWideOptimizer
    \/ SingleRunOrDefault
    \/ HillClimbingStep
    \/ Return

SpecWide == Init /\ [][NextWide]_vars

\* ---- properties ------------------------------------------------------------
InClimb == pc \in {"hc_loop", "hc_return"}

NoTwoEqual(p) == \A i, j \in 1..Len(p) : i # j => p[i] # p[j]

InsideGrid(p) ==
    \A i \in 1..Len(p) :
        /\ 0 <= p[i][1] /\ p[i][1] < grid_size
        /\ 0 <= p[i][2] /\ p[i][2] < grid_size

\* every placement the state holds: the start placement, the neighbors last
\* generated, the placement of the run, of its result, of every recorded run
\* and the best one
PlacementsHeld ==
    {initial_wifi, current_wifi}
    \cup {neighbors[k] : k \in DOMAIN neighbors}
    \cup {best_neighbor[k] : k \in DOMAIN best_neighbor}
    \cup {result[k].wifi_positions : k \in DOMAIN result}
    \cup {all_results[k].wifi_positions : k \in DOMAIN all_results}
    \cup {best_solution[k] : k \in DOMAIN best_solution}
    \cup {results[k].best_wifi_positions[1] : k \in DOMAIN results}
    \cup UNION {{results[k].all_results[i].wifi_positions :
                    i \in DOMAIN results[k].all_results} : k \in DOMAIN results}

\* C1: within one hill_climbing run, whenever the current placement is
\* replaced (an improving step is counted), the new current score is strictly
\* greater than the one before.
C1_ScoresStrictlyIncrease ==
    [][(pc = "hc_loop"
        /\ (current_wifi' # current_wifi \/ improvements' # improvements))
       => current_score' > current_score]_vars

\* a run that adopted two placements in a row, ending above its start score
C1_Witness ==
    /\ pc = "hc_return"
    /\ result[1].improvements >= 2
    /\ result[1].score >= calculate_objective(initial_wifi) + 2

\* C2: a hill_climbing run that entered its loop returns, and the returned
\* number of iterations is at most max_iterations; with max_iterations = 0
\* the start placement and its score are returned unchanged.
C2_ReturnsWithinMax ==
    /\ pc = "hc_return"
    /\ result[1].iterations <= max_iterations
    /\ max_iterations = 0 =>
          result[1] = RunResult(initial_wifi,
                                calculate_objective(initial_wifi), 0, 0)

C2_TerminatesWithinMax == (pc = "hc_loop") ~> C2_ReturnsWithinMax

\* a run stopped by the cap while a better neighbor was still there
C2_Witness ==
    /\ pc = "hc_return"
    /\ max_iterations >= 1
    /\ result[1].iterations = max_iterations
    /\ \E k \in DOMAIN get_neighbors(current_wifi) :
          calculate_objective(get_neighbors(current_wifi)[k]) > current_score

\* C3: for num_restarts >= 1 the returned best_score is at least the score of
\* every run in all_results, and is the score of one of them.
C3_BestIsMaximum ==
    pc = "rr_return" =>
        LET r == results[1]
        IN  /\ num_restarts >= 1
            /\ Len(r.all_results) = num_restarts
            /\ \A i \in DOMAIN r.all_results :
                  r.best_score >= r.all_results[i].score
            /\ \E i \in DOMAIN r.all_results :
                  r.best_score = r.all_results[i].score

\* a search whose second restart beat the first
C3_Witness ==
    /\ pc = "rr_return"
    /\ num_restarts = 2
    /\ results[1].all_results[1].score < results[1].all_results[2].score
    /\ results[1].best_restart_num = 2

\* C4: a run that returns with fewer iterations than max_iterations returns a
\* local optimum: no placement of get_neighbors of the returned placement
\* scores strictly more than the returned score.
C4_LocalOptimum ==
    (pc = "hc_return" /\ result[1].iterations < max_iterations) =>
        LET ns == get_neighbors(result[1].wifi_positions)
        IN  \A k \in DOMAIN ns : calculate_objective(ns[k]) <= result[1].score

\* a run that climbed, then stopped below the cap with neighbors to compare
C4_Witness ==
    /\ pc = "hc_return"
    /\ result[1].iterations < max_iterations
    /\ result[1].improvements >= 1
    /\ Len(get_neighbors(result[1].wifi_positions)) >= 2

\* C5: no placement returned by generate_random_wifi, get_neighbors,
\* hill_climbing or the restart search has two equal positions.
C5_PositionsDistinct == \A p \in PlacementsHeld : NoTwoEqual(p)

\* a finished search that recorded a run which moved a modem and ended with
\* two modems side by side, where a move onto the other modem is discarded
C5_Witness ==
    /\ pc = "rr_return"
    /\ \E i \in DOMAIN results[1].all_results :
          LET r == results[1].all_results[i]
          IN  /\ Len(r.wifi_positions) = 2
              /\ r.improvements >= 1
              /\ manhattan_distance(r.wifi_positions[1],
                                    r.wifi_positions[2]) = 1

\* C6: every position of every placement of a search (start placements,
\* generated neighbors, adopted and returned placements) is inside the grid.
C6_PositionsInGrid == \A p \in PlacementsHeld : InsideGrid(p)

\* a finished search with a run that moved a modem to the last row or column
C6_Witness ==
    /\ pc = "rr_return"
    /\ \E i \in DOMAIN results[1].all_results :
          LET r == results[1].all_results[i]
          IN  /\ r.improvements >= 1
              /\ \E k \in DOMAIN r.wifi_positions :
                    \/ r.wifi_positions[k][1] = grid_size - 1
                    \/ r.wifi_positions[k][2] = grid_size - 1

\* C7: hill_climbing never raises: from an empty start placement, or on a
\* grid of one cell, it returns the start placement with iterations = 0 and
\* improvements = 0.
C7_TotalOnDegenerateInput ==
    (pc \in {"hc_loop", "hc_return", "hc_raise"}
     /\ (initial_wifi = <<>> \/ grid_size = 1)) =>
        /\ pc # "hc_raise"
        /\ pc = "hc_return" =>
              /\ result[1].wifi_positions = initial_wifi
              /\ result[1].iterations = 0
              /\ result[1].improvements = 0

\* C8: the restart search called with num_restarts < 1 ends in an error: it
\* runs no restart, returns no dictionary, and so no undefined statistics and
\* no None best placement.
C8_NoRestartsIsAnError ==
    /\ (pc \in {"rr_loop", "rr_return", "rr_raise"} /\ num_restarts < 1) =>
          /\ pc # "rr_return"
          /\ results = None
          /\ all_results = <<>>
          /\ pc = "rr_raise" => exception \in {"ValueError", "ZeroDivisionError"}
    /\ pc = "rr_return" =>
          /\ results[1].best_wifi_positions # None
          /\ results[1].statistics.average_score[2] # 0
          /\ results[1].statistics.std_score[2] # 0
          /\ results[1].statistics.improvement_rate[2] # 0

\* the search called with num_restarts = 0 has raised
C8_Witness ==
    /\ pc = "rr_raise"
    /\ num_restarts = 0
    /\ exception = "ValueError"
    /\ results = None

\* C9: constructing an optimizer with grid_size <= 0, num_computers < 0 or
\* num_wifi < 0 ends in an error at construction.
C9_InvalidConfigurationRaises ==
    (pc # "new" /\ (grid_size <= 0 \/ num_computers < 0 \/ num_wifi < 0)) =>
        pc = "init_raise"

\* the placement got from p by moving modem i one step in direction d, and
\* whether that is a neighbor: inside the grid and on no other modem
C10_Move(p, i, d) ==
    [p EXCEPT ![i] =
        IF d = 1 THEN <<p[i][1] - 1, p[i][2]>>
        ELSE IF d = 2 THEN <<p[i][1] + 1, p[i][2]>>
        ELSE IF d = 3 THEN <<p[i][1], p[i][2] - 1>>
        ELSE <<p[i][1], p[i][2] + 1>>]

C10_IsNeighbor(p, i, d) ==
    /\ InsideGrid(C10_Move(p, i, d))
    /\ \A j \in DOMAIN p : j # i => p[j] # C10_Move(p, i, d)[i]

\* C10: at every improving step the adopted placement is a neighbor of the
\* highest score and, among the neighbors of that score, the first in the
\* enumeration order: lowest modem index, then (-1,0), (1,0), (0,-1), (0,1).
C10_FirstBestNeighborAdopted ==
    [][(pc = "hc_loop" /\ improvements' = improvements + 1) =>
         \E i \in DOMAIN current_wifi, d \in 1..4 :
            /\ C10_IsNeighbor(current_wifi, i, d)
            /\ current_wifi' = C10_Move(current_wifi, i, d)
            /\ current_score' = calculate_objective(current_wifi')
            /\ \A i2 \in DOMAIN current_wifi, d2 \in 1..4 :
                  C10_IsNeighbor(current_wifi, i2, d2) =>
                     LET s2 == calculate_objective(C10_Move(current_wifi, i2, d2))
                     IN  \/ s2 < current_score'
                         \/ /\ s2 = current_score'
                            /\ (i < i2 \/ (i = i2 /\ d <= d2))]_vars

\* just after an improving step at which two neighbors tied for the best
\* score, the adopted one being the earlier of the two
C10_Witness ==
    /\ InClimb
    /\ improvements >= 1
    /\ best_neighbor = Some(current_wifi)
    /\ \E k1, k2 \in DOMAIN neighbors :
          /\ k1 < k2
          /\ neighbors[k1] = current_wifi
          /\ calculate_objective(neighbors[k2]) = current_score

\* the two counters agree, in the locals of the run and in its result
C11_Counted ==
    /\ iterations = improvements
    /\ \A k \in DOMAIN result : result[k].iterations = result[k].improvements

\* C11: in every state of a hill_climbing run and in the returned result
\* iterations = improvements: a step of the loop either adopts a better
\* placement and adds one to both, or is the final evaluation that finds no
\* better neighbor (or the cap) and returns with both as they were.
C11_CountersMoveTogether ==
    [][/\ C11_Counted'
       /\ pc = "hc_loop" =>
             \/ /\ pc' = "hc_loop"
                /\ current_score' > current_score
                /\ iterations' = iterations + 1
                /\ improvements' = improvements + 1
             \/ /\ pc' = "hc_return"
                /\ iterations' = iterations
                /\ improvements' = improvements
                /\ result'[1].iterations = iterations
                /\ result'[1].improvements = improvements]_vars

\* a run that adopted one placement, then found no better neighbor with an
\* iteration to spare
C11_Witness ==
    /\ pc = "hc_return"
    /\ max_iterations = 2
    /\ result[1].iterations = 1
    /\ result[1].improvements = 1
    /\ hc_best_score <= current_score

\* the instance of the example: a 3x3 grid, clients at (0,0) and (0,2), one
\* modem starting at (2,2), at least two iterations allowed
C12_Example ==
    /\ InClimb
    /\ grid_size = 3
    /\ computers = {<<0, 0>>, <<0, 2>>}
    /\ initial_wifi = <<<<2, 2>>>>
    /\ max_iterations >= 2

\* C12: on the example hill_climbing goes through the scores -6, -4, -2,
\* adopting (1,2) then (0,2), and returns the placement [(0,2)] with score
\* -2, iterations 2 and improvements 2.
C12_ExampleRun ==
    C12_Example =>
        /\ iterations \in 0..2
        /\ improvements = iterations
        /\ iterations = 0 =>
              /\ pc = "hc_loop"
              /\ current_wifi = <<<<2, 2>>>> /\ current_score = -6
        /\ iterations = 1 =>
              /\ pc = "hc_loop"
              /\ current_wifi = <<<<1, 2>>>> /\ current_score = -4
        /\ iterations = 2 =>
              /\ current_wifi = <<<<0, 2>>>> /\ current_score = -2
        /\ pc = "hc_return" =>
              result[1] = [wifi_positions |-> <<<<0, 2>>>>, score |-> -2,
                           iterations |-> 2, improvements |-> 2]

\* the example run has returned, stopped by the neighbors of (0,2) and not by
\* the cap
C12_Witness ==
    /\ C12_Example
    /\ pc = "hc_return"
    /\ max_iterations > 2
    /\ neighbors = <<<<<<1, 2>>>>, <<<<0, 1>>>>>>
    /\ hc_best_score = -2

\* num is the first run of rs that has the score best, no run has more, and
\* sol is the placement of that run
C13_EarliestBest(rs, best, num, sol) ==
    /\ num \in DOMAIN rs
    /\ rs[num].score = best
    /\ sol = Some(rs[num].wifi_positions)
    /\ \A j \in DOMAIN rs :
          /\ rs[j].score <= best
          /\ j < num => rs[j].score < best

\* C13: after every restart of a search, and in the dictionary returned for
\* num_restarts >= 1, best_restart_num is the 1-based number of the earliest
\* restart whose score is the maximum over the restarts made, and the best
\* placement is the one that restart returned: a tie never replaces it.
C13_EarliestBestRestartKept ==
    /\ (pc = "rr_loop" /\ restart >= 1) =>
          C13_EarliestBest(all_results, best_score, best_restart_num,
                           best_solution)
    /\ pc = "rr_return" =>
          /\ num_restarts >= 1
          /\ C13_EarliestBest(results[1].all_results, results[1].best_score,
                              results[1].best_restart_num,
                              results[1].best_wifi_positions)

\* a finished search whose two restarts tied on the score with different
\* placements, the first one kept
C13_Witness ==
    /\ pc = "rr_return"
    /\ Len(results[1].all_results) = 2
    /\ results[1].all_results[1].score = results[1].all_results[2].score
    /\ results[1].all_results[1].wifi_positions
          # results[1].all_results[2].wifi_positions
    /\ results[1].best_restart_num = 1
    /\ results[1].best_wifi_positions
          = Some(results[1].all_results[1].wifi_positions)

\* C14: with a grid and a modem count that are valid, the start placement
\* generate_random_wifi returned, and every placement of a run and of a run
\* result, has exactly num_wifi positions.
C14_PlacementLengthIsNumWifi ==
    (grid_size >= 1 /\ num_wifi >= 0) =>
        /\ InClimb =>
              /\ Len(initial_wifi) = num_wifi
              /\ Len(current_wifi) = num_wifi
        /\ \A k \in DOMAIN result :
              Len(result[k].wifi_positions) = num_wifi
        /\ (pc = "rr_loop" /\ restart >= 1) => Len(initial_wifi) = num_wifi
        /\ \A k \in DOMAIN all_results :
              Len(all_results[k].wifi_positions) = num_wifi

\* C16: with num_computers = 0 the objective of every placement met is 0 and
\* hill_climbing, from any start placement, does not raise, adopts nothing
\* and returns the start placement with score 0, iterations 0 and
\* improvements 0.
C16_NoClientsNoClimb ==
    (pc \in {"hc_loop", "hc_return", "hc_raise"} /\ num_computers = 0) =>
        /\ pc # "hc_raise"
        /\ current_wifi = initial_wifi
        /\ current_score = 0
        /\ calculate_objective(current_wifi) = 0
        /\ \A k \in DOMAIN neighbors : calculate_objective(neighbors[k]) = 0
        /\ iterations = 0
        /\ improvements = 0
        /\ pc = "hc_return" =>
              result[1] = [wifi_positions |-> initial_wifi, score |-> 0,
                           iterations |-> 0, improvements |-> 0]

\* a run without clients that compared the neighbors of its start placement
\* and returned at once
C16_Witness ==
    /\ pc = "hc_return"
    /\ num_computers = 0
    /\ max_iterations >= 1
    /\ Len(initial_wifi) >= 1
    /\ Len(neighbors) >= 2
    /\ best_neighbor = Some(neighbors[1])
    /\ result[1].iterations = 0

\* the placements that differ from p at one index i only, where they hold a
\* cell of the grid one step from p[i] along one axis that no other modem of
\* p is on
C17_OneStepPlacements(p) ==
    {[p EXCEPT ![ic[1]] = ic[2]] :
        ic \in {jc \in (1..Len(p)) \X Cells(grid_size) :
                  /\ abs(jc[2][1] - p[jc[1]][1])
                       + abs(jc[2][2] - p[jc[1]][2]) = 1
                  /\ \A j \in 1..Len(p) : j # jc[1] => jc[2] # p[j]}}

\* C17: each time the loop of a run calls get_neighbors on its current
\* placement P (pairwise distinct, inside the grid), the list it gets holds
\* exactly the placements got from P by moving one modem one step along one
\* axis to a cell of the grid that no other modem is on, each once, each of
\* the length of P and equal to P at every other index.
C17_NeighborsExact ==
    [][(pc = "hc_loop" /\ LoopContinues(iterations, max_iterations)) =>
          /\ NoTwoEqual(current_wifi) /\ InsideGrid(current_wifi)
          /\ {neighbors'[k] : k \in DOMAIN neighbors'}
                = C17_OneStepPlacements(current_wifi)
          /\ \A k1, k2 \in DOMAIN neighbors' :
                k1 # k2 => neighbors'[k1] # neighbors'[k2]
          /\ \A k \in DOMAIN neighbors' :
                Len(neighbors'[k]) = Len(current_wifi)]_vars

\* two modems side by side on a 2x2 grid: of the eight moves four leave the
\* grid, two land on the other modem, and the two that remain were listed
C17_Witness ==
    /\ pc = "hc_return"
    /\ grid_size = 2
    /\ Len(current_wifi) = 2
    /\ manhattan_distance(current_wifi[1], current_wifi[2]) = 1
    /\ iterations < max_iterations
    /\ Len(neighbors) = 2

\* C18: the operations leave their inputs and the problem instance alone.
\* Once constructed, the optimizer keeps its client set and configuration
\* through every step of a run and of a search; the start placement passed to
\* hill_climbing is the same after every step of the run; and the placement
\* passed to get_neighbors is the same after the call, so that a run that
\* stops there returns it as it was.
C18_InputsUnchanged ==
    [][/\ pc # "new" => self' = self
       /\ (pc = "hc_loop" /\ pc' \in {"hc_loop", "hc_return"}) =>
             initial_wifi' = initial_wifi
       /\ (pc = "hc_loop" /\ pc' = "hc_return") =>
             /\ current_wifi' = current_wifi
             /\ result'[1].wifi_positions = current_wifi
       /\ (pc = "rr_loop" /\ pc' = "rr_loop") =>
             \A k \in DOMAIN all_results : all_results'[k] = all_results[k]
       /\ (pc = "rr_loop" /\ pc' = "rr_return") =>
             /\ results'[1].all_results = all_results
             /\ results'[1].best_wifi_positions = best_solution]_vars

\* a run with clients that listed the neighbors of its start placement, found
\* them all worse and returned the start placement
C18_Witness ==
    /\ pc = "hc_return"
    /\ computers # {}
    /\ Len(neighbors) >= 2
    /\ result[1].iterations = 0
    /\ result[1].wifi_positions = initial_wifi
    /\ hc_best_score < current_score

\* C19: the score recorded with a placement is the objective of that
\* placement: in every state of a run, in the run's result, in every result
\* a search has recorded, and for the best placement and best score of the
\* search while it runs and in the dictionary it returns.
C19_ScoreNeverStale ==
    /\ InClimb => current_score = calculate_objective(current_wifi)
    /\ \A k \in DOMAIN result :
          result[k].score = calculate_objective(result[k].wifi_positions)
    /\ \A k \in DOMAIN all_results :
          all_results[k].score
            = calculate_objective(all_results[k].wifi_positions)
    /\ (pc = "rr_loop" /\ restart >= 1) =>
          best_score = calculate_objective(best_solution[1])
    /\ pc = "rr_return" =>
          results[1].best_score
            = calculate_objective(results[1].best_wifi_positions[1])

\* a finished search whose best run adopted a placement and was stopped by
\* the cap short of the client
C19_Witness ==
    /\ pc = "rr_return"
    /\ results[1].best_score < 0
    /\ results[1].all_results[results[1].best_restart_num].improvements >= 1

====
